---- MODULE Spec2Model ----
(***************************************************************************)
(* Model of main.py: extraction of greeting records from a .docx table    *)
(* (read_rows_from_docx, _tcs_from_row_xml, _norm) and the per-record     *)
(* page pipeline of generate_pdf.                                          *)
(*                                                                         *)
(* Strings are sequences of one-character strings.  Python indices are    *)
(* kept 0-based in the variables (i, DOCX_TABLE_INDEX, page indices); a   *)
(* Python list l is a TLA+ sequence whose element l[j] is seq[j + 1].     *)
(***************************************************************************)
EXTENDS Integers, Sequences, FiniteSets, TLC

\* ------------------------------------------------------------------------
\* Bounds of the model
\* ------------------------------------------------------------------------
MaxLen == 4
MaxChildren == 3
MaxContent == 2
MaxRows == 2
MaxTemplatePages == 3
MaxTables == 1

\* ------------------------------------------------------------------------
\* Module configuration of main.py
\* ------------------------------------------------------------------------
DOCX_TABLE_INDEX == 0
HAS_HEADER_ROW == TRUE
SKIP_EMPTY_ROWS == TRUE

\* ------------------------------------------------------------------------
\* Characters.  NBSP is U+00A0, TAB is U+0009; " " is the ASCII space.
\* ------------------------------------------------------------------------
NBSP == "nbsp"
TAB == "tab"
Chars == {"a", "b", " ", NBSP, TAB}

\* str.isspace(): U+00A0 is whitespace for str.strip() and str.split().
IsSpace(c) == c \in {" ", NBSP, TAB}

RECURSIVE Flatten(_)
Flatten(ss) == IF ss = <<>> THEN <<>> ELSE Head(ss) \o Flatten(Tail(ss))

\* s.replace("\xa0", " ")
ReplaceNbsp(s) == [j \in 1..Len(s) |-> IF s[j] = NBSP THEN " " ELSE s[j]]

RECURSIVE LStrip(_)
LStrip(s) == IF s # <<>> /\ IsSpace(Head(s)) THEN LStrip(Tail(s)) ELSE s

RECURSIVE RStrip(_)
RStrip(s) ==
  IF s # <<>> /\ IsSpace(s[Len(s)]) THEN RStrip(SubSeq(s, 1, Len(s) - 1)) ELSE s

\* str.strip()
Strip(s) == RStrip(LStrip(s))

\* str.split() with no separator: the maximal runs of non-whitespace of s.
\* cur is the word being read, acc the words already closed.
RECURSIVE SplitFrom(_, _, _)
SplitFrom(s, cur, acc) ==
  IF s = <<>>
  THEN IF cur = <<>> THEN acc ELSE Append(acc, cur)
  ELSE IF IsSpace(Head(s))
       THEN SplitFrom(Tail(s), <<>>, IF cur = <<>> THEN acc ELSE Append(acc, cur))
       ELSE SplitFrom(Tail(s), Append(cur, Head(s)), acc)

Split(s) == SplitFrom(s, <<>>, <<>>)

\* sep.join(parts)
RECURSIVE Join(_, _)
Join(sep, parts) ==
  IF parts = <<>> THEN <<>>
  ELSE IF Len(parts) = 1 THEN Head(parts)
  ELSE Head(parts) \o sep \o Join(sep, Tail(parts))

\* A slip that trims and replaces but does not collapse inner runs.
NormNoCollapse(s) == Strip(ReplaceNbsp(s))

\* " ".join((s or "").replace("\xa0", " ").strip().split())
_norm(s) == Join(<<" ">>, Split(Strip(ReplaceNbsp(s))))

\* ------------------------------------------------------------------------
\* XML nodes of a table row.  A node is a w:tc cell (runs = the texts of its
\* w:t descendants in document order), a w:sdt content control (content =
\* the children of its w:sdtContent) or any other element (w:trPr, ...).
\* ------------------------------------------------------------------------
Tc(runs) == [tag |-> "tc", runs |-> runs, content |-> <<>>]
Sdt(content) == [tag |-> "sdt", runs |-> <<>>, content |-> content]
Other == [tag |-> "other", runs |-> <<>>, content |-> <<>>]

IsTc(n) == n.tag = "tc"

\* child.xpath("./w:sdtContent/w:tc"): the w:tc children of the content body.
SdtCells(child) == SelectSeq(child.content, IsTc)

\* A slip that keeps the direct cells and drops the wrapped ones.
RECURSIVE TcsDirectOnly(_)
TcsDirectOnly(tr) ==
  IF tr = <<>> THEN <<>>
  ELSE (IF Head(tr).tag = "tc" THEN <<Head(tr)>> ELSE <<>>)
       \o TcsDirectOnly(Tail(tr))

RECURSIVE _tcs_from_row_xml(_)
_tcs_from_row_xml(tr) ==
  IF tr = <<>> THEN <<>>
  ELSE (IF Head(tr).tag = "tc" THEN <<Head(tr)>>
        ELSE IF Head(tr).tag = "sdt" THEN SdtCells(Head(tr))
        ELSE <<>>)
       \o _tcs_from_row_xml(Tail(tr))

\* "".join(tc.xpath(".//w:t/text()"))
_text_from_tc(tc) == Flatten(tc.runs)

\* ------------------------------------------------------------------------
\* Row validation helpers of read_rows_from_docx
\* ------------------------------------------------------------------------
\* A slip that reports the 0-based loop index instead of the row number.
RowNumberZeroBased(i) == i

\* The row number of the messages: f"... {i + 1}"
RowNumber(i) == i + 1

TooFewCells(tcs) == Len(tcs) < 3

\* A slip that skips a row as soon as one of its fields is empty.
RowIsBlankAny(name, greeting, dear) ==
  SKIP_EMPTY_ROWS /\ (name = <<>> \/ greeting = <<>> \/ dear = <<>>)

\* SKIP_EMPTY_ROWS and (not name and not greeting and not dear)
RowIsBlank(name, greeting, dear) ==
  SKIP_EMPTY_ROWS /\ name = <<>> /\ greeting = <<>> /\ dear = <<>>

RowData(name, greeting, dear) == [name |-> name, greeting |-> greeting, dear |-> dear]

\* A slip that puts the new record first.
PrependRecord(out, rec) == <<rec>> \o out

\* out.append(RowData(...))
AppendRecord(out, rec) == Append(out, rec)

\* A slip that never reports an empty result.
NeverEmpty(out) == FALSE

\* if not out: raise
EmptyResult(out) == out = <<>>

NoError == [kind |-> "none", row |-> 0, field |-> "none"]
Error(kind, row, field) == [kind |-> kind, row |-> row, field |-> field]

\* ------------------------------------------------------------------------
\* Overlay rendering
\* ------------------------------------------------------------------------
SALUTATION_POS == [x |-> 75, y |-> 480, rotate_deg |-> 90, align |-> "left"]
GREETING_POS == [x |-> 118, y |-> 500, rotate_deg |-> 90, align |-> "left"]

\* SALUTATION_FORMAT = "{dear} {name}!"
SalutationText(row) == row.dear \o <<" ">> \o row.name \o <<"!">>

\* GREETING_FORMAT = "{greeting}"
GreetingText(row) == row.greeting

\* draw_text_block: one label drawn at its anchor, rotated about the anchor.
draw_text_block(text, pos) ==
  [text |-> text, x |-> pos.x, y |-> pos.y, rotate_deg |-> pos.rotate_deg,
   align |-> pos.align]

\* A slip that passes the page size as (height, width).
make_overlay_swapped(page_width, page_height, salutation_text, greeting_text) ==
  [w |-> page_height, h |-> page_width,
   labels |-> <<draw_text_block(salutation_text, SALUTATION_POS),
                draw_text_block(greeting_text, GREETING_POS)>>]

\* The one-page overlay: canvas of pagesize (page_width, page_height) with
\* the two labels.
make_overlay_pdf(page_width, page_height, salutation_text, greeting_text) ==
  [w |-> page_width, h |-> page_height,
   labels |-> <<draw_text_block(salutation_text, SALUTATION_POS),
                draw_text_block(greeting_text, GREETING_POS)>>]

\* ------------------------------------------------------------------------
\* Page objects.  A parse of the template gives each page an object of its
\* own, named <<reader, page index>>; reader 0 is reader0, reader k the
\* fresh_reader of record k.  The writer's pages are these objects, so two
\* pages added from one parse of one page are one object.
\* ------------------------------------------------------------------------
\* PdfReader(io.BytesIO(bytes)): the page objects of reader r.
ParsePages(r, bytes) ==
  [ref \in {<<r, j>> : j \in 0..(Len(bytes) - 1)} |->
     [idx |-> ref[2], w |-> bytes[ref[2] + 1].w, h |-> bytes[ref[2] + 1].h,
      overlays |-> <<>>]]

\* reader0.pages[0] and reader0.pages[1]
Page1Ref == <<0, 0>>
Base0Ref == <<0, 1>>

\* A slip that takes the reference page of the one shared parse.
SharedBasePage(k) == <<0, 1>>

\* fresh_reader.pages[1] of the k-th record
FreshBasePage(k) == <<k, 1>>

\* A slip that leaves the loop one record early.
HasMoreRowsButLast(ri, rows) == ri < Len(rows) - 1

\* for row in rows: ri rows have been taken so far
HasMoreRows(ri, rows) == ri < Len(rows)

\* page.merge_page(overlay_page): the overlay is drawn on top, the page box
\* stays as it is.
merge_page(page, overlay_page) ==
  [page EXCEPT !.overlays = Append(@, overlay_page)]

\* ------------------------------------------------------------------------
\* State
\* ------------------------------------------------------------------------
VARIABLES
  normIn, normOut, normAgain, normPc,
  rowIn, tcsOut, tcsFlat, tcsPc,
  templateExists, fontExists, nTables, table, templateFile,
  pc, err, i, out, rows,
  template_bytes, heap, page_width, page_height, writer, ri,
  overlay_bytes, overlay_page, fresh_base_page, new_page,
  outFile, log

normVars == <<normIn, normOut, normAgain, normPc>>
tcsVars == <<rowIn, tcsOut, tcsFlat, tcsPc>>
inputVars == <<templateExists, fontExists, nTables, table, templateFile>>
readVars == <<i, out, rows>>
pdfVars == <<template_bytes, heap, page_width, page_height, writer, ri,
             overlay_bytes, overlay_page, fresh_base_page, new_page, outFile, log>>
mainVars == <<inputVars, pc, err, readVars, pdfVars>>
vars == <<normVars, tcsVars, mainVars>>

NoPages == [ref \in {} |-> 0]
NoOverlay == [w |-> 0, h |-> 0, labels |-> <<>>]
NoRef == <<-1, -1>>

\* The locals of a run before generate_pdf has assigned them.
Unassigned ==
  /\ err = NoError
  /\ i = 0 /\ out = <<>> /\ rows = <<>>
  /\ template_bytes = <<>> /\ heap = NoPages
  /\ page_width = 0 /\ page_height = 0
  /\ writer = <<>> /\ ri = 0
  /\ overlay_bytes = NoOverlay /\ overlay_page = NoOverlay
  /\ fresh_base_page = NoRef /\ new_page = NoRef
  /\ outFile = <<>> /\ log = <<>>

MainIdle ==
  /\ templateExists = FALSE /\ fontExists = FALSE /\ nTables = 0
  /\ table = <<>> /\ templateFile = <<>>
  /\ pc = "idle"
  /\ Unassigned

NormIdle == normIn = <<>> /\ normOut = <<>> /\ normAgain = <<>> /\ normPc = "idle"
TcsIdle == rowIn = <<>> /\ tcsOut = <<>> /\ tcsFlat = <<>> /\ tcsPc = "idle"

\* All strings over Chars of length at most n.
StringsUpTo(n) == UNION {[1..k -> Chars] : k \in 0..n}

\* All sequences over S of length at most n.
SeqsUpTo(S, n) == UNION {[1..k -> S] : k \in 0..n}

\* ------------------------------------------------------------------------
\* Normalisation of one string, applied twice
\* ------------------------------------------------------------------------
NormInit ==
  /\ normIn \in StringsUpTo(MaxLen)
  /\ normOut = <<>>
  /\ normAgain = <<>>
  /\ normPc = "in"
  /\ TcsIdle
  /\ MainIdle

ApplyNorm ==
  /\ normPc = "in"
  /\ normOut' = _norm(normIn)
  /\ normPc' = "once"
  /\ UNCHANGED <<normIn, normAgain, tcsVars, mainVars>>

ApplyNormAgain ==
  /\ normPc = "once"
  /\ normAgain' = _norm(normOut)
  /\ normPc' = "twice"
  /\ UNCHANGED <<normIn, normOut, tcsVars, mainVars>>

NormNext == ApplyNorm \/ ApplyNormAgain

SpecNorm == NormInit /\ [][NormNext]_vars

\* The non-whitespace characters of s, in order.
NonSpace(s) == SelectSeq(s, LAMBDA c : ~IsSpace(c))

\* The positions of the non-whitespace characters of s, ascending.
RECURSIVE NsPosFrom(_, _)
NsPosFrom(s, j) ==
  IF j > Len(s) THEN <<>>
  ELSE (IF IsSpace(s[j]) THEN <<>> ELSE <<j>>) \o NsPosFrom(s, j + 1)

NsPos(s) == NsPosFrom(s, 1)

\* s has whitespace between its k-th and (k+1)-th non-whitespace character.
GapAfter(s, k) == NsPos(s)[k + 1] - NsPos(s)[k] > 1

\* The k-th gap of s is exactly one ASCII space.
OneSpaceAfter(s, k) ==
  /\ NsPos(s)[k + 1] - NsPos(s)[k] = 2
  /\ s[NsPos(s)[k] + 1] = " "

\* C9: _norm(s) has no leading or trailing whitespace and no non-breaking
\* space; its non-whitespace characters are those of s, unchanged and in
\* order; two neighbouring non-whitespace characters are separated by exactly
\* one ASCII space when s had whitespace (ordinary or non-breaking) between
\* them and by nothing otherwise; _norm(_norm(s)) = _norm(s); and _norm(s) is
\* empty exactly when s holds only whitespace.
C9_NormCollapsesAndTrims ==
  /\ normPc \in {"once", "twice"} =>
       /\ normOut # <<>> => ~IsSpace(normOut[1]) /\ ~IsSpace(normOut[Len(normOut)])
       /\ \A j \in 1..Len(normOut) : normOut[j] # NBSP
       /\ NonSpace(normOut) = NonSpace(normIn)
       /\ \A k \in 1..(Len(NonSpace(normIn)) - 1) :
            IF GapAfter(normIn, k)
            THEN OneSpaceAfter(normOut, k)
            ELSE ~GapAfter(normOut, k)
       /\ (normOut = <<>>) <=> (\A j \in 1..Len(normIn) : IsSpace(normIn[j]))
  /\ normPc = "twice" => normAgain = normOut

\* A run of a non-breaking space and a tab between two letters was collapsed.
C9_Witness ==
  /\ normPc = "twice"
  /\ normIn = <<"a", NBSP, TAB, "b">>
  /\ normOut = <<"a", " ", "b">>

\* ------------------------------------------------------------------------
\* Cell extraction of one row, with and without its content controls
\* ------------------------------------------------------------------------
TcA == Tc(<<<<"a">>>>)
TcB == Tc(<<<<"b">>>>)

\* The cells a content body may hold.
ContentNodes == {TcA, TcB}

\* A content control whose body holds another content control and a cell.
SdtNested == Sdt(<<Sdt(<<TcA>>), TcB>>)

\* The children a row may hold.
RowNodes ==
  {TcA, TcB, Other, SdtNested} \cup {Sdt(c) : c \in SeqsUpTo(ContentNodes, MaxContent)}

\* Every cell inside a node, at any wrapper depth, in document order.
RECURSIVE CellsOf(_)
RECURSIVE CellsOfAll(_)
CellsOf(n) ==
  IF n.tag = "tc" THEN <<n>>
  ELSE IF n.tag = "sdt" THEN CellsOfAll(n.content)
  ELSE <<>>
CellsOfAll(ns) == IF ns = <<>> THEN <<>> ELSE CellsOf(Head(ns)) \o CellsOfAll(Tail(ns))

\* The row authored without content controls: every wrapper replaced by the
\* cells it contains.
RECURSIVE Unwrapped(_)
Unwrapped(tr) ==
  IF tr = <<>> THEN <<>>
  ELSE (IF Head(tr).tag = "sdt" THEN CellsOf(Head(tr)) ELSE <<Head(tr)>>)
       \o Unwrapped(Tail(tr))

\* The wrappers of the row hold table cells (and no further wrappers).
WrappersHoldCells(tr) ==
  \A j \in 1..Len(tr) :
    tr[j].tag = "sdt" => \A m \in 1..Len(tr[j].content) : tr[j].content[m].tag = "tc"

TcsInit ==
  /\ rowIn \in SeqsUpTo(RowNodes, MaxChildren)
  /\ tcsOut = <<>>
  /\ tcsFlat = <<>>
  /\ tcsPc = "in"
  /\ NormIdle
  /\ MainIdle

ApplyTcs ==
  /\ tcsPc = "in"
  /\ tcsOut' = _tcs_from_row_xml(rowIn)
  /\ tcsPc' = "wrapped"
  /\ UNCHANGED <<rowIn, tcsFlat, normVars, mainVars>>

ApplyTcsUnwrapped ==
  /\ tcsPc = "wrapped"
  /\ tcsFlat' = _tcs_from_row_xml(Unwrapped(rowIn))
  /\ tcsPc' = "both"
  /\ UNCHANGED <<rowIn, tcsOut, normVars, mainVars>>

TcsNext == ApplyTcs \/ ApplyTcsUnwrapped

SpecTcs == TcsInit /\ [][TcsNext]_vars

\* C6: for a row mixing direct cells and content controls that hold cells,
\* _tcs_from_row_xml returns the same cells, in document order, as for the
\* row with every content control replaced by its cells, so the texts of
\* cells 0, 1 and 2 (name, greeting, dear) are the same either way.
C6_SameCellsWithAndWithoutSdt ==
  (tcsPc = "both" /\ WrappersHoldCells(rowIn)) =>
    /\ tcsOut = tcsFlat
    /\ tcsOut = CellsOfAll(rowIn)
    /\ \A j \in 1..Len(tcsOut) : _text_from_tc(tcsOut[j]) = _text_from_tc(tcsFlat[j])

\* A direct cell, then a content control holding two cells.
C6_Witness ==
  /\ tcsPc = "both"
  /\ rowIn = <<TcB, Sdt(<<TcA, TcB>>)>>
  /\ tcsOut = <<TcB, TcA, TcB>>

\* ------------------------------------------------------------------------
\* One run of generate_pdf
\* ------------------------------------------------------------------------
\* Cell texts of the sample rows.
CellA == Tc(<<<<"a">>>>)
CellB == Tc(<<<<"b">>>>)
CellAB == Tc(<<<<"a">>, <<"b">>>>)
CellBA == Tc(<<<<" ", "b", NBSP>>, <<NBSP, "a", TAB>>>>)
CellEmpty == Tc(<<>>)
CellSpaces == Tc(<<<<NBSP, TAB>>, <<" ">>>>)

HeaderRow == <<CellA, CellB, CellAB>>

RowDirect == <<CellA, CellB, CellAB>>
RowWrapped == <<Other, Sdt(<<CellBA, CellB>>), Sdt(<<CellB>>), CellA>>
RowBlank == <<CellEmpty, CellSpaces, Sdt(<<CellSpaces>>)>>
RowNoName == <<CellSpaces, CellB, CellA>>
RowNoGreeting == <<CellA, Sdt(<<CellEmpty>>), CellAB>>
RowNoDear == <<CellA, CellB, CellSpaces>>
RowOnlyGreeting == <<CellEmpty, CellB, CellEmpty>>
RowShort == <<CellA, Sdt(<<CellB>>)>>
RowShortBlank == <<CellEmpty, Other>>
RowNested == <<CellA, CellB, Sdt(<<Sdt(<<CellAB>>)>>)>>

RowSamples ==
  {RowDirect, RowWrapped, RowBlank, RowNoName, RowNoGreeting, RowNoDear,
   RowOnlyGreeting, RowShort, RowShortBlank, RowNested}

\* Page boxes of the template pages.
Sizes == {[w |-> 200, h |-> 400], [w |-> 300, h |-> 500]}

\* A template of n pages: page index 1 has box b, every other page box a.
TemplateOf(a, b, n) == [j \in 1..n |-> IF j = 2 THEN b ELSE a]

Init ==
  /\ NormIdle
  /\ TcsIdle
  /\ templateExists \in BOOLEAN
  /\ fontExists \in BOOLEAN
  /\ nTables \in 0..MaxTables
  /\ table \in IF nTables = 0 THEN {<<>>}
               ELSE {<<>>} \cup {<<HeaderRow>> \o d : d \in SeqsUpTo(RowSamples, MaxRows)}
  /\ templateFile \in {TemplateOf(a, b, n) : a \in Sizes, b \in Sizes, n \in 0..MaxTemplatePages}
  /\ pc = "start"
  /\ Unassigned

Fail(e) ==
  /\ pc' = "failed"
  /\ err' = e

\* generate_pdf: the two os.path.exists checks
CheckConfig ==
  /\ pc = "start"
  /\ IF ~templateExists THEN Fail(Error("config", 0, "template"))
     ELSE IF ~fontExists THEN Fail(Error("config", 0, "font"))
     ELSE pc' = "open_docx" /\ UNCHANGED err
  /\ UNCHANGED <<normVars, tcsVars, inputVars, readVars, pdfVars>>

\* read_rows_from_docx up to the loop
OpenDocx ==
  /\ pc = "open_docx"
  /\ IF nTables = 0
     THEN Fail(Error("no_table", 0, "none")) /\ UNCHANGED <<i, out>>
     ELSE IF DOCX_TABLE_INDEX < 0 \/ DOCX_TABLE_INDEX >= nTables
     THEN Fail(Error("table_index", 0, "none")) /\ UNCHANGED <<i, out>>
     ELSE /\ i' = (IF HAS_HEADER_ROW THEN 1 ELSE 0)
          /\ out' = <<>>
          /\ pc' = "row_loop"
          /\ UNCHANGED err
  /\ UNCHANGED <<normVars, tcsVars, inputVars, rows, pdfVars>>

\* read_rows_from_docx: one pass of the loop over table.rows[i]
ReadRow ==
  /\ pc = "row_loop"
  /\ i < Len(table)
  /\ LET tcs == _tcs_from_row_xml(table[i + 1]) IN
     IF TooFewCells(tcs)
     THEN Fail(Error("few_cells", RowNumber(i), "none")) /\ UNCHANGED <<i, out>>
     ELSE LET name == _norm(_text_from_tc(tcs[1]))
              greeting == _norm(_text_from_tc(tcs[2]))
              dear == _norm(_text_from_tc(tcs[3]))
          IN IF RowIsBlank(name, greeting, dear)
             THEN i' = i + 1 /\ UNCHANGED <<pc, err, out>>
             ELSE IF name = <<>>
             THEN Fail(Error("empty_field", RowNumber(i), "name")) /\ UNCHANGED <<i, out>>
             ELSE IF greeting = <<>>
             THEN Fail(Error("empty_field", RowNumber(i), "greeting")) /\ UNCHANGED <<i, out>>
             ELSE IF dear = <<>>
             THEN Fail(Error("empty_field", RowNumber(i), "dear")) /\ UNCHANGED <<i, out>>
             ELSE /\ out' = AppendRecord(out, RowData(name, greeting, dear))
                  /\ i' = i + 1
                  /\ UNCHANGED <<pc, err>>
  /\ UNCHANGED <<normVars, tcsVars, inputVars, rows, pdfVars>>

\* read_rows_from_docx after the loop
ReadEnd ==
  /\ pc = "row_loop"
  /\ i >= Len(table)
  /\ IF EmptyResult(out)
     THEN Fail(Error("no_data", 0, "none")) /\ UNCHANGED rows
     ELSE rows' = out /\ pc' = "load_template" /\ UNCHANGED err
  /\ UNCHANGED <<normVars, tcsVars, inputVars, i, out, pdfVars>>

\* generate_pdf: read template.pdf, parse it once, take the page size
LoadTemplate ==
  /\ pc = "load_template"
  /\ template_bytes' = templateFile
  /\ heap' = ParsePages(0, templateFile)
  /\ IF Len(templateFile) < 2
     THEN Fail(Error("template_pages", 0, "none")) /\ UNCHANGED <<page_width, page_height>>
     ELSE /\ page_width' = heap'[Base0Ref].w
          /\ page_height' = heap'[Base0Ref].h
          /\ pc' = "add_cover"
          /\ UNCHANGED err
  /\ UNCHANGED <<normVars, tcsVars, inputVars, readVars, writer, ri,
                 overlay_bytes, overlay_page, fresh_base_page, new_page, outFile, log>>

\* writer = PdfWriter(); writer.add_page(page1)
AddCover ==
  /\ pc = "add_cover"
  /\ writer' = <<Page1Ref>>
  /\ pc' = "for_row"
  /\ UNCHANGED <<normVars, tcsVars, inputVars, err, readVars, template_bytes, heap,
                 page_width, page_height, ri, overlay_bytes, overlay_page,
                 fresh_base_page, new_page, outFile, log>>

\* for row in rows: the two texts and make_overlay_pdf
MakeOverlay ==
  /\ pc = "for_row"
  /\ HasMoreRows(ri, rows)
  /\ ri' = ri + 1
  /\ overlay_bytes' = make_overlay_pdf(page_width, page_height,
                                       SalutationText(rows[ri + 1]),
                                       GreetingText(rows[ri + 1]))
  /\ log' = Append(log, [op |-> "render", rec |-> ri + 1])
  /\ pc' = "parse_overlay"
  /\ UNCHANGED <<normVars, tcsVars, inputVars, err, readVars, template_bytes, heap,
                 page_width, page_height, writer, overlay_page,
                 fresh_base_page, new_page, outFile>>

\* A slip that skips the re-parse and appends the page of the last parse.
ParseOverlayThenAppend ==
  /\ pc = "parse_overlay"
  /\ overlay_page' = overlay_bytes
  /\ log' = Append(log, [op |-> "parse_overlay", rec |-> ri])
  /\ fresh_base_page' = (IF fresh_base_page = NoRef THEN Base0Ref ELSE fresh_base_page)
  /\ pc' = "add_page"
  /\ UNCHANGED <<normVars, tcsVars, inputVars, err, readVars, template_bytes, heap,
                 page_width, page_height, writer, ri, overlay_bytes,
                 new_page, outFile>>

\* overlay_reader = PdfReader(...); overlay_page = overlay_reader.pages[0]
ParseOverlay ==
  /\ pc = "parse_overlay"
  /\ overlay_page' = overlay_bytes
  /\ log' = Append(log, [op |-> "parse_overlay", rec |-> ri])
  /\ pc' = "reparse"
  /\ UNCHANGED <<normVars, tcsVars, inputVars, err, readVars, template_bytes, heap,
                 page_width, page_height, writer, ri, overlay_bytes,
                 fresh_base_page, new_page, outFile>>

\* fresh_reader = PdfReader(template_bytes); fresh_base_page = its page 1
ReParse ==
  /\ pc = "reparse"
  /\ heap' = ParsePages(ri, template_bytes) @@ heap
  /\ fresh_base_page' = FreshBasePage(ri)
  /\ log' = Append(log, [op |-> "reparse", rec |-> ri])
  /\ pc' = "add_page"
  /\ UNCHANGED <<normVars, tcsVars, inputVars, err, readVars, template_bytes,
                 page_width, page_height, writer, ri, overlay_bytes, overlay_page,
                 new_page, outFile>>

\* new_page = writer.add_page(fresh_base_page)
AddPage ==
  /\ pc = "add_page"
  /\ writer' = Append(writer, fresh_base_page)
  /\ new_page' = fresh_base_page
  /\ log' = Append(log, [op |-> "add_page", rec |-> ri])
  /\ pc' = "merge"
  /\ UNCHANGED <<normVars, tcsVars, inputVars, err, readVars, template_bytes, heap,
                 page_width, page_height, ri, overlay_bytes, overlay_page,
                 fresh_base_page, outFile>>

\* new_page.merge_page(overlay_page)
MergePage ==
  /\ pc = "merge"
  /\ heap' = [heap EXCEPT ![new_page] = merge_page(@, overlay_page)]
  /\ log' = Append(log, [op |-> "merge", rec |-> ri])
  /\ pc' = "for_row"
  /\ UNCHANGED <<normVars, tcsVars, inputVars, err, readVars, template_bytes,
                 page_width, page_height, writer, ri, overlay_bytes, overlay_page,
                 fresh_base_page, new_page>>
  /\ UNCHANGED outFile

\* The pages of the writer, as writer.write serialises them.
WriterPages == [j \in 1..Len(writer) |-> heap[writer[j]]]

\* with open(out_path, "wb") as f: writer.write(f)
WriteOutput ==
  /\ pc = "for_row"
  /\ ~HasMoreRows(ri, rows)
  /\ outFile' = Append(outFile, WriterPages)
  /\ pc' = "done"
  /\ UNCHANGED <<normVars, tcsVars, inputVars, err, readVars, template_bytes, heap,
                 page_width, page_height, writer, ri, overlay_bytes, overlay_page,
                 fresh_base_page, new_page, log>>

Next ==
  \/ CheckConfig
  \/ OpenDocx
  \/ ReadRow
  \/ ReadEnd
  \/ LoadTemplate
  \/ AddCover
  \/ MakeOverlay
  \/ ParseOverlay
  \/ ReParse
  \/ AddPage
  \/ MergePage
  \/ WriteOutput

Spec == Init /\ [][Next]_vars

TypeOK ==
  /\ pc \in {"idle", "start", "open_docx", "row_loop", "load_template", "add_cover",
             "for_row", "parse_overlay", "reparse", "add_page", "merge", "done",
             "failed"}
  /\ ri \in 0..Len(rows)
  /\ \A j \in 1..Len(writer) : writer[j] \in DOMAIN heap

\* ------------------------------------------------------------------------
\* Properties of a run
\* ------------------------------------------------------------------------
\* The rows after the header row.
DataRows(tbl) == IF Len(tbl) <= 1 THEN <<>> ELSE SubSeq(tbl, 2, Len(tbl))

\* The normalised text of logical cell j (from 1) of a row.
CellText(row, j) == _norm(_text_from_tc(_tcs_from_row_xml(row)[j]))

HasThreeCells(row) == Len(_tcs_from_row_xml(row)) >= 3

\* The names of the required fields of a row that are empty.
EmptyFields(row) ==
  {f \in {"name", "greeting", "dear"} :
     CellText(row, CASE f = "name" -> 1 [] f = "greeting" -> 2 [] f = "dear" -> 3) = <<>>}

IsBlankRow(row) == HasThreeCells(row) /\ Cardinality(EmptyFields(row)) = 3
IsFullRow(row) == HasThreeCells(row) /\ EmptyFields(row) = {}

RecordOf(row) ==
  [name |-> CellText(row, 1), greeting |-> CellText(row, 2), dear |-> CellText(row, 3)]

\* The records of the non-blank, fully populated data rows, in row order.
RECURSIVE RecordsOf(_)
RecordsOf(rs) ==
  IF rs = <<>> THEN <<>>
  ELSE (IF IsFullRow(Head(rs)) THEN <<RecordOf(Head(rs))>> ELSE <<>>)
       \o RecordsOf(Tail(rs))

ValidRecords(tbl) == RecordsOf(DataRows(tbl))

\* The page was generated from record r: the reference page of the template
\* carrying the two labels of r and nothing else.
GeneratedFrom(page, r) ==
  /\ page.idx = 1
  /\ Len(page.overlays) = 1
  /\ Len(page.overlays[1].labels) = 2
  /\ page.overlays[1].labels[1].text = SalutationText(r)
  /\ page.overlays[1].labels[2].text = GreetingText(r)

\* C1: when generate_pdf completes, the written document has 1 + N pages, N
\* the number of non-blank fully populated data rows; page 1 is template page
\* 0 and page k + 1 is the page generated from the k-th valid row, in row
\* order.
C1_OnePagePerValidRow ==
  pc = "done" =>
    /\ Len(outFile) = 1
    /\ Len(outFile[1]) = 1 + Len(ValidRecords(table))
    /\ outFile[1][1] = [idx |-> 0, w |-> templateFile[1].w, h |-> templateFile[1].h,
                        overlays |-> <<>>]
    /\ \A k \in 1..Len(ValidRecords(table)) :
         GeneratedFrom(outFile[1][k + 1], ValidRecords(table)[k])

\* Two different valid rows, the first one wrapped in content controls.
C1_Witness ==
  /\ pc = "done"
  /\ table = <<HeaderRow, RowWrapped, RowDirect>>
  /\ Len(outFile[1]) = 3

\* The row the loop of read_rows_from_docx is about to process.
AtRow == pc = "row_loop" /\ i < Len(table)
CurRow == table[i + 1]

\* C2: a data row with at least 3 logical cells is skipped without error when
\* its three normalised cells are all empty; aborts the run with a data error
\* naming one of its empty fields and its row number, producing no record,
\* when some but not all are empty; and otherwise appends exactly the record
\* (cell 0, cell 1, cell 2).
C2_RowValidation ==
  [][(AtRow /\ HasThreeCells(CurRow)) =>
       IF Cardinality(EmptyFields(CurRow)) = 3
       THEN out' = out /\ pc' = "row_loop" /\ err' = NoError /\ i' = i + 1
       ELSE IF EmptyFields(CurRow) # {}
       THEN /\ pc' = "failed"
            /\ err'.kind = "empty_field"
            /\ err'.field \in EmptyFields(CurRow)
            /\ err'.row = i + 1
            /\ out' = out /\ rows' = rows
       ELSE /\ out' = Append(out, RecordOf(CurRow))
            /\ pc' = "row_loop" /\ err' = NoError /\ i' = i + 1]_vars

\* The second data row lacks its greeting; the first one gave a record.
C2_Witness ==
  /\ pc = "failed"
  /\ err = Error("empty_field", 3, "greeting")
  /\ table = <<HeaderRow, RowDirect, RowNoGreeting>>
  /\ Len(out) = 1

\* C3: a data row with fewer than 3 logical cells aborts the run with the
\* structural error carrying its 1-based row number (header = row 1), also
\* when its cells are blank; no record is added and no later row is read.
C3_ShortRowIsFatal ==
  /\ [][(AtRow /\ ~HasThreeCells(CurRow)) =>
          /\ pc' = "failed"
          /\ err' = Error("few_cells", i + 1, "none")
          /\ out' = out /\ i' = i /\ rows' = rows]_vars
  /\ []((pc = "failed" /\ err.kind = "few_cells") =>
          /\ err.row = i + 1
          /\ ~HasThreeCells(table[err.row])
          /\ rows = <<>> /\ outFile = <<>>)
  /\ [][pc # "failed"]_vars

\* A blank row of two cells after a valid row: row 3 is reported.
C3_Witness ==
  /\ pc = "failed"
  /\ err = Error("few_cells", 3, "none")
  /\ table = <<HeaderRow, RowDirect, RowShortBlank>>

\* Position of the call op of record k in the call log, 0 when not made.
Pos(op, k) ==
  IF \E j \in 1..Len(log) : log[j] = [op |-> op, rec |-> k]
  THEN CHOOSE j \in 1..Len(log) : log[j] = [op |-> op, rec |-> k]
  ELSE 0

\* If call b of record k was made, call a of record k was made before it.
Before(a, b, k) == Pos(b, k) # 0 => (Pos(a, k) # 0 /\ Pos(a, k) < Pos(b, k))

\* C4: the output is written at most once, only at the end of a run in which
\* the cover page and the merged page of every record were appended; a run
\* that failed has written nothing; after the write no page is appended or
\* changed.
C4_SingleFinalWrite ==
  /\ [](/\ Len(outFile) <= 1
        /\ outFile # <<>> =>
             /\ pc = "done"
             /\ Len(writer) = 1 + Len(rows)
             /\ writer[1] = Page1Ref
             /\ \A k \in 1..Len(rows) : Pos("merge", k) # 0
             /\ outFile[1] = WriterPages
        /\ pc = "failed" => outFile = <<>>
        /\ pc = "done" => Len(outFile) = 1)
  /\ [][outFile # <<>> => (writer' = writer /\ heap' = heap /\ outFile' = outFile)]_vars
  /\ [][pc \notin {"failed", "done"}]_vars

\* A run that wrote the cover page and two record pages.
C4_Witness ==
  /\ pc = "done"
  /\ Len(outFile) = 1
  /\ Len(rows) = 2
  /\ Len(writer) = 3

\* The overlay of record k has been merged onto its page.
Merged(k) == Pos("merge", k) # 0

\* C5: every generated page carries exactly the overlay of its own record
\* (none before its merge); a merge changes only the page just appended and
\* leaves the cover page, the earlier pages and the template bytes as they
\* were.
C5_CloneOnUse ==
  /\ [](writer # <<>> =>
          /\ heap[writer[1]].overlays = <<>>
          /\ template_bytes = templateFile
          /\ \A k \in 1..(Len(writer) - 1) :
               IF Merged(k)
               THEN GeneratedFrom(heap[writer[k + 1]], rows[k])
               ELSE heap[writer[k + 1]].overlays = <<>>)
  /\ [][pc = "merge" =>
          /\ \A j \in 1..(Len(writer) - 1) : heap'[writer[j]] = heap[writer[j]]
          /\ heap'[writer[Len(writer)]].overlays
               = Append(heap[writer[Len(writer)]].overlays, overlay_page)
          /\ writer' = writer
          /\ template_bytes' = template_bytes]_vars

\* The second record has been merged; the first page still has one overlay.
C5_Witness ==
  /\ pc = "for_row"
  /\ ri = 2
  /\ Merged(2)
  /\ rows[1] # rows[2]
  /\ Len(heap[writer[2]].overlays) = 1

\* read_rows_from_docx has returned its list to generate_pdf.
ReadReturned ==
  \/ pc \in {"load_template", "add_cover", "for_row", "parse_overlay", "reparse",
             "add_page", "merge", "done"}
  \/ pc = "failed" /\ err.kind = "template_pages"

\* read_rows_from_docx has reached its loop over the rows.
InReadLoop ==
  \/ pc = "row_loop"
  \/ ReadReturned
  \/ pc = "failed" /\ err.kind \in {"few_cells", "empty_field", "no_data"}

\* Every data row of the table is blank (there may be none).
AllRowsBlank(tbl) == \A j \in 1..Len(DataRows(tbl)) : IsBlankRow(DataRows(tbl)[j])

\* C7: a list returned by read_rows_from_docx is non-empty and its records
\* have non-empty, normalised name, greeting and dear; a table whose data rows
\* are all blank, or that has none, gives the 'no data' error and no list.
C7_RecordsNonEmpty ==
  /\ ReadReturned =>
       /\ rows # <<>>
       /\ \A k \in 1..Len(rows) :
            /\ rows[k].name # <<>> /\ rows[k].greeting # <<>> /\ rows[k].dear # <<>>
            /\ _norm(rows[k].name) = rows[k].name
            /\ _norm(rows[k].greeting) = rows[k].greeting
            /\ _norm(rows[k].dear) = rows[k].dear
  /\ (InReadLoop /\ AllRowsBlank(table)) =>
       /\ ~ReadReturned
       /\ pc = "failed" => err = Error("no_data", 0, "none")
  /\ (pc = "failed" /\ err.kind = "no_data") => AllRowsBlank(table) /\ rows = <<>>

\* A blank row was skipped and the one valid row was returned.
C7_Witness ==
  /\ pc = "load_template"
  /\ table = <<HeaderRow, RowBlank, RowWrapped>>
  /\ Len(rows) = 1

\* C8: every overlay has the width and height of the reference page
\* (template page index 1), and a generated page keeps that size after the
\* merge.
C8_OverlaySizedToReferencePage ==
  /\ overlay_bytes # NoOverlay =>
       overlay_bytes.w = templateFile[2].w /\ overlay_bytes.h = templateFile[2].h
  /\ overlay_page # NoOverlay =>
       overlay_page.w = templateFile[2].w /\ overlay_page.h = templateFile[2].h
  /\ \A k \in 2..Len(writer) :
       /\ heap[writer[k]].w = templateFile[2].w
       /\ heap[writer[k]].h = templateFile[2].h
       /\ \A m \in 1..Len(heap[writer[k]].overlays) :
            /\ heap[writer[k]].overlays[m].w = heap[writer[k]].w
            /\ heap[writer[k]].overlays[m].h = heap[writer[k]].h

\* An overlay merged onto a reference page whose box differs from the cover's.
C8_Witness ==
  /\ pc = "for_row"
  /\ Merged(1)
  /\ templateFile[1] = [w |-> 300, h |-> 500]
  /\ templateFile[2] = [w |-> 200, h |-> 400]
  /\ heap[writer[2]].overlays[1].w = 200
  /\ heap[writer[2]].overlays[1].h = 400

\* C10 as stated: per record, re-parse, then render, then parse of the
\* overlay, then append, then merge.
C10_ReparseBeforeRender ==
  \A k \in 1..Len(rows) :
    /\ Before("reparse", "render", k)
    /\ Before("render", "parse_overlay", k)
    /\ Before("parse_overlay", "add_page", k)
    /\ Before("add_page", "merge", k)

\* C10 (amended): per record the overlay is rendered first, with the width
\* and height taken from the reference page of the parse made before the
\* loop, then the overlay bytes are parsed, then the template is re-parsed,
\* then the fresh page is appended, then the overlay is merged onto it.
C10_RenderBeforeReparse ==
  \A k \in 1..Len(rows) :
    /\ Before("render", "parse_overlay", k)
    /\ Before("parse_overlay", "reparse", k)
    /\ Before("reparse", "add_page", k)
    /\ Before("add_page", "merge", k)
    /\ Pos("render", k) # 0 =>
         /\ Base0Ref \in DOMAIN heap
         /\ page_width = heap[Base0Ref].w /\ page_height = heap[Base0Ref].h
         /\ (k = ri => overlay_bytes.w = page_width /\ overlay_bytes.h = page_height)
    /\ (k > 1 /\ Pos("render", k) # 0) => Pos("merge", k - 1) # 0

\* Both records went through all five steps.
C10_Witness ==
  /\ Len(rows) = 2
  /\ Len(log) = 10
  /\ log[1].op = "render" /\ log[3].op = "reparse" /\ log[10].op = "merge"

====
